---- MODULE Spec2Model ----
(***************************************************************************)
(* Model of the vending-machine publish/subscribe router                   *)
(* (PublishSubscribeService and its four subscribers).                     *)
(*                                                                         *)
(* publish() is modelled at the granularity of its drain loop: one step    *)
(* per dequeue and one step per handler invocation.  A frame of `stack`    *)
(* is one activation of publish() that got past the re-entrancy guard.     *)
(* Handlers h1/h2 stand for arbitrary ISubscriber implementations: their   *)
(* handle() body may call back into the router, return events, or throw.   *)
(***************************************************************************)
EXTENDS Integers, Sequences, FiniteSets, TLC

(* ---------------------------- bounds ----------------------------------- *)
\* events the environment may inject (top-level, reentrant or returned)
MaxEvents == 4
\* entries under one event type in the registry
MaxSubs == 2
\* router calls a generic handler makes inside one handle() invocation
MaxOps == 1
\* how far below or above its initial level a machine's stock may be for
\* the environment still to publish a sale or a refill for it
MaxDrift == 8
\* entries in one Machine[] array
MaxMachines == 3

(* ------------------------- program constants --------------------------- *)
InitialStock == 10
Threshold == 3

EventTypes == {"sale", "refill", "low_stock_warning", "stock_level_ok"}
MachineIds == {"001", "002"}
\* a Machine the caller creates later, to pass to addMachine
NewMachineIds == {"004"}
ListSubscribers == {"saleSubscriber", "refillSubscriber", "stockLoggerSubscriber"}
BuiltinSubscribers == ListSubscribers \cup {"stockWarningSubscriber"}
GenericSubscribers == {"h1", "h2"}
Subscribers == BuiltinSubscribers \cup GenericSubscribers

VARIABLES
  subscribers,    \* _subscribers: Map<type, ISubscriber[]> (domain = keys)
  eventQueue,     \* _eventQueue
  isPublishing,   \* _isPublishing
  stack,          \* activations of publish() that are inside the drain loop
  stockLevel,     \* Machine.stockLevel per Machine object
  arrays,         \* the Machine[] arrays: "caller" and one private per subscriber
  machinesRef,    \* which array each list subscriber's `machines` points to
  warnMachines,   \* StockWarningSubscriber.machines: id -> warning-sent flag
  log,            \* history: handler invocations, in order
  nextSeq,        \* history: the enqueue number the next event gets
  outcome,        \* history: how the last top-level publish() ended
  queuedAtStart,  \* history: seq -> events queued when it was dequeued
  raised,         \* history: a handler threw during the last top-level publish()
  regHist,        \* history: the subscribe/unsubscribe calls made
  scopeHist,      \* history: <<handler, machine>> removed and not added again
  seen            \* history: machines the warning subscriber has observed

routerVars == <<subscribers, eventQueue, isPublishing, stack>>
machineVars == <<stockLevel, arrays, machinesRef, warnMachines>>
histVars == <<log, nextSeq, outcome, queuedAtStart, raised, regHist, scopeHist,
              seen>>
vars == <<subscribers, eventQueue, isPublishing, stack, stockLevel, arrays,
          machinesRef, warnMachines, log, nextSeq, outcome, queuedAtStart,
          raised, regHist, scopeHist, seen>>

(* ----------------------------- helpers --------------------------------- *)
Range(s) == {s[i] : i \in DOMAIN s}

\* Array.prototype.findIndex, 1-based; 0 stands for -1
RECURSIVE FindIndexFrom(_, _, _)
FindIndexFrom(s, id, i) ==
  IF i > Len(s) THEN 0
  ELSE IF s[i] = id THEN i ELSE FindIndexFrom(s, id, i + 1)

FindIndex_first(s, id) ==
  IF s # <<>> /\ FindIndexFrom(s, id, 1) = 0 THEN 1 ELSE FindIndexFrom(s, id, 1)
FindIndex(s, id) == FindIndexFrom(s, id, 1)

\* Array.prototype.filter((x) => x !== v)
FilterOut_first(s, v) ==
  IF FindIndex(s, v) = 0 THEN s
  ELSE SubSeq(s, 1, FindIndex(s, v) - 1) \o SubSeq(s, FindIndex(s, v) + 1, Len(s))
FilterOut(s, v) == SelectSeq(s, LAMBDA x : x # v)

\* Map.has / Map.get(...) || [] / Map.set on _subscribers
Has(t) == t \in DOMAIN subscribers
GetOrEmpty(t) == IF Has(t) THEN subscribers[t] ELSE <<>>
EmptyMap == [x \in {} |-> <<>>]
MapSet(m, t, v) == [x \in (DOMAIN m) \cup {t} |-> IF x = t THEN v ELSE m[x]]

\* an event object; seq/parent/by/via are history fields (enqueue number,
\* the event whose dispatch produced it, the position of the producing
\* handler in that dispatch, and how it was produced)
Event(type, machineId, qty) ==
  [type |-> type, machineId |-> machineId, qty |-> qty]

Stamp(e, seq, parent, by, via) ==
  [type |-> e.type, machineId |-> e.machineId, qty |-> e.qty,
   seq |-> seq, parent |-> parent, by |-> by, via |-> via]

Top == stack[Len(stack)]
AtRest == stack = <<>>
InHandle == stack # <<>> /\ Top.pc = "handle"

(* --------------------------- initial state ----------------------------- *)
\* new PublishSubscribeService(); machines created with stockLevel = 10 and
\* one array injected into every subscriber (two of the program's three
\* machines; a Machine object is identified with its id)
Init ==
  /\ subscribers = EmptyMap
  /\ eventQueue = <<>>
  /\ isPublishing = FALSE
  /\ stack = <<>>
  /\ stockLevel = [m \in MachineIds \cup NewMachineIds |-> InitialStock]
  /\ arrays = [a \in {"caller"} \cup ListSubscribers |->
                 IF a = "caller" THEN <<"001", "002">> ELSE <<>>]
  /\ machinesRef = [h \in ListSubscribers |-> "caller"]
  /\ warnMachines = [m \in MachineIds |-> FALSE]
  /\ log = <<>>
  /\ nextSeq = 1
  /\ outcome = "none"
  /\ queuedAtStart = EmptyMap
  /\ raised = FALSE
  /\ regHist = [order |-> [t \in EventTypes |-> <<>>], removed |-> {}]
  /\ scopeHist = {}
  /\ seen = [ever |-> {}, fresh |-> {}]

(* ------------------------ PublishSubscribeService ---------------------- *)
\* the activation record of a publish() that entered the drain loop;
\* a frame back at the while test keeps the event it has just dispatched,
\* and stock0 and snap are history fields: the stock levels and the type's
\* registered handlers when that event was dequeued
NoEvent == Stamp(Event("none", "none", 0), 0, 0, 0, "none")
WhileFrame ==
  [pc |-> "while", cur |-> NoEvent, handlers |-> <<>>, alias |-> FALSE,
   idx |-> 1, ops |-> 0, stock0 |-> <<>>, snap |-> <<>>]

\* history fields of an event produced now, by a caller at rest or by the
\* handler that is running
StampNow(e, seq, via) ==
  IF AtRest THEN Stamp(e, seq, 0, 0, via)
  ELSE Stamp(e, seq, Top.cur.seq, Top.idx, via)

RECURSIVE StampAll(_, _, _)
StampAll(es, seq, via) ==
  IF es = <<>> THEN <<>>
  ELSE <<StampNow(Head(es), seq, via)>> \o StampAll(Tail(es), seq + 1, via)

\* this._eventQueue.push(...)
Push_lost(q, es) == q
Push(q, es) == q \o es

\* `if (this._isPublishing) return;`
Guarded_off == FALSE
Guarded == isPublishing

\* a router call made by the running handler counts against its budget
CountOp(st) ==
  IF st # <<>> /\ st[Len(st)].pc = "handle"
  THEN [st EXCEPT ![Len(st)].ops = @ + 1]
  ELSE st

\* publish(event)
publish(event) ==
  /\ eventQueue' = Push(eventQueue, <<StampNow(event, nextSeq, "publish")>>)
  /\ nextSeq' = nextSeq + 1
  /\ IF Guarded
     THEN /\ stack' = CountOp(stack)
          /\ outcome' = IF AtRest THEN "returned" ELSE outcome
          /\ UNCHANGED isPublishing
     ELSE /\ isPublishing' = TRUE
          /\ stack' = Append(CountOp(stack), WhileFrame)
          /\ outcome' = IF AtRest THEN "running" ELSE outcome
  /\ raised' = IF AtRest THEN FALSE ELSE raised
  /\ UNCHANGED <<subscribers, log, queuedAtStart, regHist, scopeHist, seen>>
  /\ UNCHANGED machineVars

\* this._eventQueue.shift(): the element taken and the array left
Shift_pop(q) == [head |-> q[Len(q)], rest |-> SubSeq(q, 1, Len(q) - 1)]
Shift(q) == [head |-> Head(q), rest |-> Tail(q)]

\* while (queue.length > 0) { currentEvent = shift(); handlers = get() || []
Dequeue ==
  /\ stack # <<>> /\ Top.pc = "while"
  /\ eventQueue # <<>>
  /\ LET cur == Shift(eventQueue).head
         hs == GetOrEmpty(cur.type)
     IN /\ eventQueue' = Shift(eventQueue).rest
        /\ stack' = [stack EXCEPT ![Len(stack)] =
             [pc |-> IF hs = <<>> THEN "while" ELSE "for", cur |-> cur,
              handlers |-> hs, alias |-> Has(cur.type), idx |-> 1, ops |-> 0,
              stock0 |-> stockLevel, snap |-> hs]]
        /\ queuedAtStart' = MapSet(queuedAtStart, cur.seq,
                                   {x.seq : x \in Range(Shift(eventQueue).rest)})
  /\ UNCHANGED <<subscribers, isPublishing, log, nextSeq, outcome, raised,
                 regHist, scopeHist, seen>>
  /\ UNCHANGED machineVars

\* the loop ends: this._isPublishing = false; return.  The history
\* variables cover one drain: they start afresh when the outermost
\* publish() returns with nothing pending
DrainEnd ==
  /\ stack # <<>> /\ Top.pc = "while"
  /\ eventQueue = <<>>
  /\ isPublishing' = FALSE
  /\ stack' = SubSeq(stack, 1, Len(stack) - 1)
  /\ outcome' = IF Len(stack) = 1 THEN "returned" ELSE outcome
  /\ log' = IF Len(stack) = 1 THEN <<>> ELSE log
  /\ nextSeq' = IF Len(stack) = 1 THEN 1 ELSE nextSeq
  /\ queuedAtStart' = IF Len(stack) = 1 THEN EmptyMap ELSE queuedAtStart
  /\ UNCHANGED <<subscribers, eventQueue, raised, regHist, scopeHist, seen>>
  /\ UNCHANGED machineVars

\* the for-of iterator moves on; past the end, back to the while test
Advance(f) ==
  [f EXCEPT !.idx = @ + 1, !.ops = 0,
            !.pc = IF f.idx + 1 > Len(f.handlers) THEN "while" ELSE "for"]

\* the history of registry calls: per type the handlers in the order of the
\* subscribe() calls that are still in force, and the pairs unsubscribed
\* since they were last subscribed
RECURSIVE RemoveAll(_, _)
RemoveAll(s, v) ==
  IF s = <<>> THEN <<>>
  ELSE IF Head(s) = v THEN RemoveAll(Tail(s), v)
       ELSE <<Head(s)>> \o RemoveAll(Tail(s), v)

NoteSubscribe(type, handler) ==
  [order |-> [regHist.order EXCEPT ![type] = Append(@, handler)],
   removed |-> regHist.removed \ {<<type, handler>>}]

NoteUnsubscribe(type, handler) ==
  [order |-> [regHist.order EXCEPT ![type] = RemoveAll(@, handler)],
   removed |-> regHist.removed \cup {<<type, handler>>}]

\* this._subscribers.get(type)?.push(handler)
Registered_front(list, handler) == <<handler>> \o list
Registered_dedup(list, handler) ==
  IF handler \in Range(list) THEN list ELSE Append(list, handler)
Registered(list, handler) == Append(list, handler)

\* subscribe(type, handler): push in place onto the type's array, so a
\* running for-of over that same array sees the new entry
subscribe(type, handler) ==
  /\ subscribers' = MapSet(subscribers, type,
                           Registered(GetOrEmpty(type), handler))
  /\ stack' = [i \in DOMAIN stack |->
       LET f == CountOp(stack)[i]
       IN IF f.alias /\ f.cur.type = type
          THEN [f EXCEPT !.handlers = Registered(@, handler)]
          ELSE f]
  /\ regHist' = NoteSubscribe(type, handler)
  /\ UNCHANGED <<eventQueue, isPublishing>>
  /\ UNCHANGED machineVars
  /\ seen' = [seen EXCEPT !.fresh = {}]
  /\ UNCHANGED <<log, nextSeq, outcome, queuedAtStart, raised, scopeHist>>

\* the registry after unsubscribe(type, handler)
Unsubscribed_clear(m, type, handler) ==
  IF type \notin DOMAIN m THEN m ELSE MapSet(m, type, <<>>)
Unsubscribed(m, type, handler) ==
  IF type \notin DOMAIN m THEN m
  ELSE MapSet(m, type, FilterOut(m[type], handler))

\* unsubscribe(type, handler): the type's array is replaced by a filtered
\* copy, so a running for-of keeps iterating the old array
unsubscribe(type, handler) ==
  /\ subscribers' = Unsubscribed(subscribers, type, handler)
  /\ stack' = [i \in DOMAIN stack |->
       LET f == CountOp(stack)[i]
       IN IF Has(type) /\ f.cur.type = type
          THEN [f EXCEPT !.alias = FALSE] ELSE f]
  /\ regHist' = NoteUnsubscribe(type, handler)
  /\ UNCHANGED <<eventQueue, isPublishing>>
  /\ UNCHANGED machineVars
  /\ seen' = [seen EXCEPT !.fresh = {}]
  /\ UNCHANGED <<log, nextSeq, outcome, queuedAtStart, raised, scopeHist>>

(* ------------------------------ subscribers ---------------------------- *)
\* the Machine[] a list subscriber's `machines` field points to
MachinesOf(h) == arrays[machinesRef[h]]

\* MachineSaleSubscriber.handle: the stock levels after the call
SaleHandle_floor(event) ==
  LET machineIndex == FindIndex(MachinesOf("saleSubscriber"), event.machineId)
      m == MachinesOf("saleSubscriber")[machineIndex]
  IN IF machineIndex = 0 THEN stockLevel
     ELSE IF event.type = "sale"
          THEN [stockLevel EXCEPT
                  ![m] = IF @ - event.qty < 0 THEN 0 ELSE @ - event.qty]
          ELSE stockLevel
SaleHandle(event) ==
  LET machineIndex == FindIndex(MachinesOf("saleSubscriber"), event.machineId)
  IN IF machineIndex = 0 THEN stockLevel
     ELSE IF event.type = "sale"
          THEN [stockLevel EXCEPT
                  ![MachinesOf("saleSubscriber")[machineIndex]] = @ - event.qty]
          ELSE stockLevel

\* MachineRefillSubscriber.handle: the stock levels after the call
RefillHandle(event) ==
  LET machineIndex == FindIndex(MachinesOf("refillSubscriber"), event.machineId)
  IN IF machineIndex = 0 THEN stockLevel
     ELSE IF event.type = "refill"
          THEN [stockLevel EXCEPT
                  ![MachinesOf("refillSubscriber")[machineIndex]] = @ + event.qty]
          ELSE stockLevel

\* StockWarningSubscriber.handle: the returned events (none or one) ...
WarningResult_quiet(event) ==
  IF event.machineId \notin DOMAIN warnMachines THEN <<>>
  ELSE IF stockLevel[event.machineId] >= Threshold /\ warnMachines[event.machineId]
       THEN <<Event("stock_level_ok", event.machineId, 0)>>
  ELSE <<>>
WarningResult_level(event) ==
  IF event.machineId \notin DOMAIN warnMachines THEN <<>>
  ELSE IF stockLevel[event.machineId] < Threshold
       THEN <<Event("low_stock_warning", event.machineId, 0)>>
  ELSE IF warnMachines[event.machineId]
       THEN <<Event("stock_level_ok", event.machineId, 0)>>
  ELSE <<>>
WarningResult(event) ==
  IF event.machineId \notin DOMAIN warnMachines THEN <<>>
  ELSE IF stockLevel[event.machineId] < Threshold /\ ~warnMachines[event.machineId]
       THEN <<Event("low_stock_warning", event.machineId, 0)>>
  ELSE IF stockLevel[event.machineId] >= Threshold /\ warnMachines[event.machineId]
       THEN <<Event("stock_level_ok", event.machineId, 0)>>
  ELSE <<>>

\* ... and its flags after the call
WarningFlags_sticky(event) ==
  IF event.machineId \notin DOMAIN warnMachines THEN warnMachines
  ELSE IF stockLevel[event.machineId] < Threshold /\ ~warnMachines[event.machineId]
       THEN [warnMachines EXCEPT ![event.machineId] = TRUE]
  ELSE warnMachines
WarningFlags(event) ==
  IF event.machineId \notin DOMAIN warnMachines THEN warnMachines
  ELSE IF stockLevel[event.machineId] < Threshold /\ ~warnMachines[event.machineId]
       THEN [warnMachines EXCEPT ![event.machineId] = TRUE]
  ELSE IF stockLevel[event.machineId] >= Threshold /\ warnMachines[event.machineId]
       THEN [warnMachines EXCEPT ![event.machineId] = FALSE]
  ELSE warnMachines

\* the machines StockWarningSubscriber.handle has read the level of: ever,
\* and since the last subscribe/unsubscribe call and the machine's last
\* addMachine/removeMachine on the warning subscriber
Observed(event) ==
  IF event.machineId \notin DOMAIN warnMachines THEN seen
  ELSE [ever |-> seen.ever \cup {event.machineId},
        fresh |-> seen.fresh \cup {event.machineId}]

\* one entry of the history of handler invocations
LogEntry(f) == [ev |-> f.cur, handler |-> f.handlers[f.idx], idx |-> f.idx]

\* `if (result) { push(...result) | push(result) }`
PushResult_front(q, result) == result \o q
PushResult(q, result) == Push(q, result)

\* for (const handler of handlers) { result = handler.handle(currentEvent);
\* push result } for one of the four subscribers of the program
HandleBuiltin ==
  /\ stack # <<>> /\ Top.pc = "for"
  /\ Top.handlers[Top.idx] \in BuiltinSubscribers
  /\ LET h == Top.handlers[Top.idx]
         result == IF h = "stockWarningSubscriber"
                   THEN StampAll(WarningResult(Top.cur), nextSeq, "return")
                   ELSE <<>>
     IN /\ stockLevel' = CASE h = "saleSubscriber" -> SaleHandle(Top.cur)
                           [] h = "refillSubscriber" -> RefillHandle(Top.cur)
                           [] OTHER -> stockLevel
        /\ warnMachines' = IF h = "stockWarningSubscriber"
                           THEN WarningFlags(Top.cur) ELSE warnMachines
        /\ eventQueue' = PushResult(eventQueue, result)
        /\ nextSeq' = nextSeq + Len(result)
        /\ log' = Append(log, LogEntry(Top))
        /\ stack' = [stack EXCEPT ![Len(stack)] = Advance(Top)]
        /\ seen' = IF h = "stockWarningSubscriber" THEN Observed(Top.cur)
                   ELSE seen
  /\ UNCHANGED <<subscribers, isPublishing, arrays, machinesRef, outcome,
                 queuedAtStart, raised, regHist, scopeHist>>

\* handler.handle(currentEvent) is entered for a generic ISubscriber
HandleCall ==
  /\ stack # <<>> /\ Top.pc = "for"
  /\ Top.handlers[Top.idx] \in GenericSubscribers
  /\ log' = Append(log, LogEntry(Top))
  /\ stack' = [stack EXCEPT ![Len(stack)].pc = "handle"]
  /\ UNCHANGED <<subscribers, eventQueue, isPublishing, nextSeq, outcome,
                 queuedAtStart, raised, regHist, scopeHist, seen>>
  /\ UNCHANGED machineVars

\* the generic handler returns `result` (void, one event or an array) to
\* the loop, which pushes it
HandleReturn(result) ==
  /\ InHandle
  /\ eventQueue' = PushResult(eventQueue, StampAll(result, nextSeq, "return"))
  /\ nextSeq' = nextSeq + Len(result)
  /\ stack' = [stack EXCEPT ![Len(stack)] = Advance(Top)]
  /\ UNCHANGED <<subscribers, isPublishing, log, outcome, queuedAtStart,
                 raised, regHist, scopeHist, seen>>
  /\ UNCHANGED machineVars

\* an exception raised by handle(): publish() has no try/catch/finally, so
\* it leaves every active publish() frame at once
Unwind_caught(st) == [st EXCEPT ![Len(st)] = Advance(st[Len(st)])]
Unwind(st) == <<>>

\* the generic handler throws
HandleThrow ==
  /\ InHandle
  /\ stack' = Unwind(stack)
  /\ outcome' = IF Unwind(stack) = <<>> THEN "threw" ELSE outcome
  /\ raised' = TRUE
  /\ UNCHANGED <<subscribers, eventQueue, isPublishing, log, nextSeq,
                 queuedAtStart, regHist, scopeHist, seen>>
  /\ UNCHANGED machineVars

\* the scope calls made, as history: the pairs removed and not added again
NoteAdd(h, m) == scopeHist \ {<<h, m>>}
NoteRemove(h, m) == scopeHist \cup {<<h, m>>}

\* addMachine(machine) of a list subscriber: push in place, onto whichever
\* array `machines` points to
addMachine(h, m) ==
  /\ arrays' = [arrays EXCEPT ![machinesRef[h]] = Append(@, m)]
  /\ scopeHist' = NoteAdd(h, m)
  /\ UNCHANGED <<stockLevel, machinesRef, warnMachines>>
  /\ UNCHANGED routerVars
  /\ UNCHANGED <<log, nextSeq, outcome, queuedAtStart, raised, regHist, seen>>

\* machines.filter((m) => m.id !== machine.id)
Removed_none(s, m) == s
Removed(s, m) == FilterOut(s, m)

\* removeMachine(machine) of a list subscriber: `machines` is re-pointed to
\* a filtered copy
removeMachine(h, m) ==
  /\ arrays' = [arrays EXCEPT ![h] = Removed(MachinesOf(h), m)]
  /\ machinesRef' = [machinesRef EXCEPT ![h] = h]
  /\ scopeHist' = NoteRemove(h, m)
  /\ UNCHANGED <<stockLevel, warnMachines>>
  /\ UNCHANGED routerVars
  /\ UNCHANGED <<log, nextSeq, outcome, queuedAtStart, raised, regHist, seen>>

\* StockWarningSubscriber.addMachine: machines.set(id, [machine, false])
warningAddMachine(m) ==
  /\ warnMachines' = MapSet(warnMachines, m, FALSE)
  /\ scopeHist' = NoteAdd("stockWarningSubscriber", m)
  /\ UNCHANGED <<stockLevel, arrays, machinesRef>>
  /\ UNCHANGED routerVars
  /\ seen' = [seen EXCEPT !.fresh = @ \ {m}]
  /\ UNCHANGED <<log, nextSeq, outcome, queuedAtStart, raised, regHist>>

\* StockWarningSubscriber.removeMachine: machines.delete(id)
warningRemoveMachine(m) ==
  /\ warnMachines' = [x \in (DOMAIN warnMachines) \ {m} |-> warnMachines[x]]
  /\ scopeHist' = NoteRemove("stockWarningSubscriber", m)
  /\ UNCHANGED <<stockLevel, arrays, machinesRef>>
  /\ UNCHANGED routerVars
  /\ seen' = [seen EXCEPT !.fresh = @ \ {m}]
  /\ UNCHANGED <<log, nextSeq, outcome, queuedAtStart, raised, regHist>>

(* --------------------- the router with generic handlers ---------------- *)
\* events of two types; only the first is ever subscribed to
RouterTypes == {"sale", "refill"}
RouterSubTypes == {"sale"}
RouterEvents == {Event(t, "001", 1) : t \in RouterTypes}
RouterResults ==
  {<<>>} \cup {<<e>> : e \in RouterEvents}
         \cup {<<Event("sale", "001", 1), Event("refill", "001", 1)>>}

\* the running handler may still call the router
MayCall == InHandle /\ Top.ops < MaxOps

TopPublish(e) == AtRest /\ nextSeq <= MaxEvents /\ publish(e)
TopSubscribe(t, h) ==
  AtRest /\ Len(GetOrEmpty(t)) < MaxSubs /\ subscribe(t, h)
\* a subscription of a handler that is not yet registered under the type
TopSubscribeOnce(t, h) ==
  AtRest /\ h \notin Range(GetOrEmpty(t)) /\ subscribe(t, h)
TopUnsubscribe(t, h) ==
  AtRest /\ h \in Range(GetOrEmpty(t)) /\ unsubscribe(t, h)
ReentrantPublish(e) == MayCall /\ nextSeq <= MaxEvents /\ publish(e)
Return(result) ==
  nextSeq + Len(result) <= MaxEvents + 1 /\ HandleReturn(result)

NextRouter ==
  \/ \E e \in RouterEvents : TopPublish(e)
  \/ \E t \in RouterSubTypes, h \in GenericSubscribers : TopSubscribeOnce(t, h)
  \/ \E t \in RouterSubTypes, h \in GenericSubscribers : TopUnsubscribe(t, h)
  \/ Dequeue
  \/ DrainEnd
  \/ HandleCall
  \/ \E e \in RouterEvents : ReentrantPublish(e)
  \/ \E r \in RouterResults : Return(r)
  \/ HandleThrow

SpecRouter == Init /\ [][NextRouter]_vars

(* ------------------------- claims: the router --------------------------- *)
\* the events handled so far in this drain followed by the pending ones
LogEvents == [i \in DOMAIN log |-> log[i].ev]
Timeline == LogEvents \o eventQueue

\* C1: events are dispatched in the order they were enqueued: a handler
\* invocation for an event enqueued earlier never comes after one for an
\* event enqueued later, and nothing still pending was enqueued before an
\* event that a handler has already seen -- also for events produced while
\* an earlier one was being dispatched.
C1_FifoDispatch ==
  LET t == Timeline
  IN \A i \in DOMAIN t : i < Len(t) => t[i].seq <= t[i + 1].seq

\* two events were handled, the later one produced by a reentrant publish
\* during the dispatch of the earlier one, and a returned one is handled too
C1_Witness ==
  \E i, j, k \in DOMAIN log :
    /\ i < j
    /\ log[j].ev.parent = log[i].ev.seq /\ log[j].ev.via = "publish"
    /\ log[k].ev.parent # 0 /\ log[k].ev.via = "return"

\* a step in which the running handler's call to publish() has returned to
\* it or has entered a drain loop of its own
ReentrantPublishStep ==
  /\ InHandle
  /\ nextSeq' = nextSeq + 1
  /\ Len(stack') >= Len(stack)
  /\ stack'[Len(stack)].pc = "handle"

\* C2: a publish() made from inside a handler only appends its event and
\* returns: no handler is invoked, no second drain loop starts, and at most
\* one drain loop is ever executing.
C2_SingleDrain ==
  [][ /\ Len(stack') <= 1
      /\ ReentrantPublishStep =>
           /\ Len(stack') = Len(stack)
           /\ log' = log
           /\ Len(eventQueue') = Len(eventQueue) + 1
           /\ SubSeq(eventQueue', 1, Len(eventQueue)) = eventQueue
           /\ isPublishing' = isPublishing ]_vars

\* a handler is running and the event it published is waiting in the queue
C2_Witness ==
  /\ InHandle
  /\ Top.ops >= 1
  /\ \E k \in DOMAIN eventQueue :
       eventQueue[k].via = "publish" /\ eventQueue[k].parent = Top.cur.seq

\* C3 (as stated): whenever a top-level publish() has returned normally the
\* queue is empty and the drain flag is false.
C3_ReturnedAtRest ==
  (AtRest /\ outcome = "returned") => (eventQueue = <<>> /\ ~isPublishing)

\* when x and y were both produced during the dispatch of one event, x by a
\* handler invoked no later than y's, and within one handle() call a
\* published event before a returned one
SiblingOrder(x, y) ==
  \/ x.by < y.by
  \/ x.by = y.by /\ ~(x.via = "return" /\ y.via = "publish")

\* C4: the events produced while dispatching e go to the tail: each is
\* behind every event that was queued when e began dispatch, and ahead of
\* the events produced by handlers invoked later for e; an event a handler
\* published is ahead of the event the same call returned (A, then B, then C).
C4_TailOrder ==
  LET t == Timeline
  IN \A i, j \in DOMAIN t :
       /\ ( /\ t[i].parent \in DOMAIN queuedAtStart
            /\ t[j].seq \in queuedAtStart[t[i].parent] ) => j < i
       /\ ( /\ i < j
            /\ t[i].parent # 0
            /\ t[i].parent = t[j].parent
            /\ t[i].seq # t[j].seq )
          => SiblingOrder(t[i], t[j])

\* A was handled, its handler published B and returned C, and the handling
\* order was A, B, C
C4_Witness ==
  \E i, j, k \in DOMAIN log :
    /\ i < j /\ j < k
    /\ log[j].ev.parent = log[i].ev.seq /\ log[j].ev.via = "publish"
    /\ log[k].ev.parent = log[i].ev.seq /\ log[k].ev.via = "return"
    /\ log[j].ev.by = log[i].idx /\ log[k].ev.by = log[i].idx

\* C5 (as stated): once a handler's exception has left publish(), the
\* re-entrancy guard is released.
C5_GuardReleased ==
  (AtRest /\ outcome = "threw") => ~isPublishing

\* C6: a failure raised by a handler is not swallowed: it ends the drain
\* and reaches the caller of the top-level publish().
C6_FailurePropagates ==
  raised => (AtRest /\ outcome = "threw")

\* the handler that threw was dispatching a derived or reentrantly
\* published event
C6_Witness ==
  /\ raised
  /\ log # <<>>
  /\ log[Len(log)].ev.parent # 0

\* C17 (as stated): an event whose type has no registered handler is
\* dequeued without any handler being invoked, without any change to
\* machines, flags or the rest of the queue and without error, and a
\* top-level publish() of such an event returns with the queue empty and the
\* drain flag false.
C17_UnknownTypeNoOp ==
  [][ /\ ( /\ stack # <<>> /\ Top.pc = "while"
           /\ eventQueue # <<>>
           /\ GetOrEmpty(Head(eventQueue).type) = <<>> )
         => /\ log' = log
            /\ eventQueue' = Tail(eventQueue)
            /\ UNCHANGED machineVars
            /\ raised' = raised
            /\ stack'[Len(stack)].pc = "while"
      /\ ( /\ AtRest /\ AtRest'
           /\ Len(eventQueue') = Len(eventQueue) + 1
           /\ GetOrEmpty(eventQueue'[Len(eventQueue')].type) = <<>> )
         => (eventQueue' = <<>> /\ ~isPublishing')
      /\ ( /\ Len(stack) = 1 /\ AtRest'
           /\ Top.cur.seq # 0
           /\ GetOrEmpty(Top.cur.type) = <<>>
           /\ ~raised' )
         => (eventQueue' = <<>> /\ ~isPublishing') ]_vars

(* --------------- the registry with the program's subscribers ----------- *)
\* the subscriptions the program makes for the stock-changing types, in any
\* order and any number of times
RegPairs ==
  {<<"sale", "saleSubscriber">>, <<"sale", "stockWarningSubscriber">>,
   <<"refill", "refillSubscriber">>, <<"refill", "stockWarningSubscriber">>}
RegEvents == {Event("sale", "001", 4), Event("refill", "001", 4)}

AnyUnsubscribe(t, h) == AtRest /\ unsubscribe(t, h)

\* a sale or refill published by the environment while the machine's stock
\* is within MaxDrift of its initial level
StockPublish(e) ==
  /\ e.type = "sale" => stockLevel[e.machineId] >= InitialStock - MaxDrift
  /\ e.type = "refill" => stockLevel[e.machineId] <= InitialStock + MaxDrift
  /\ TopPublish(e)

NextRegistry ==
  \/ \E p \in RegPairs : TopSubscribe(p[1], p[2])
  \/ \E p \in RegPairs : AnyUnsubscribe(p[1], p[2])
  \/ \E e \in RegEvents : StockPublish(e)
  \/ Dequeue
  \/ DrainEnd
  \/ HandleBuiltin

SpecRegistry == Init /\ [][NextRegistry]_vars

(* ------------------------- claims: the registry ------------------------- *)
Count(seq, v) == Cardinality({i \in DOMAIN seq : seq[i] = v})

\* the handlers invoked so far for the event with enqueue number n, in order
HandlersInvoked(n) ==
  LET es == SelectSeq(log, LAMBDA x : x.ev.seq = n)
  IN [i \in DOMAIN es |-> es[i].handler]

\* the event a drain is dispatching or has just dispatched
Dispatching == stack # <<>> /\ Top.cur.seq # 0

\* the level of the event's machine that the mutators registered at
\* positions 1..k of the event's type leave behind
AfterMutators(f, k) ==
  LET m == f.cur.machineId
      before == SubSeq(regHist.order[f.cur.type], 1, k)
      sold == IF f.cur.type = "sale"
                 /\ FindIndex(MachinesOf("saleSubscriber"), m) # 0
              THEN f.cur.qty * Count(before, "saleSubscriber") ELSE 0
      refilled == IF f.cur.type = "refill"
                     /\ FindIndex(MachinesOf("refillSubscriber"), m) # 0
                  THEN f.cur.qty * Count(before, "refillSubscriber") ELSE 0
  IN f.stock0[m] - sold + refilled

\* C7: the handlers of a type are invoked, for each event of the type, in
\* the order in which subscribe() registered them; so a stock-warning
\* subscriber registered after a mutator reads the level the mutator left.
C7_RegistrationOrder ==
  /\ \A t \in EventTypes : GetOrEmpty(t) = regHist.order[t]
  /\ Dispatching =>
       /\ HandlersInvoked(Top.cur.seq)
            = SubSeq(regHist.order[Top.cur.type], 1, Top.idx - 1)
       /\ ( /\ Top.pc = "for"
            /\ regHist.order[Top.cur.type][Top.idx] = "stockWarningSubscriber"
            /\ Top.cur.machineId \in MachineIds )
          => stockLevel[Top.cur.machineId] = AfterMutators(Top, Top.idx - 1)

\* the warning subscriber, registered after the sale subscriber, is about
\* to handle a sale whose quantity has already been taken from the stock
C7_Witness ==
  /\ Dispatching
  /\ Top.pc = "for"
  /\ Top.cur.type = "sale"
  /\ regHist.order["sale"] = <<"saleSubscriber", "stockWarningSubscriber">>
  /\ Top.idx = 2
  /\ stockLevel[Top.cur.machineId] = Top.stock0[Top.cur.machineId] - Top.cur.qty

\* C8: subscribe() never deduplicates: a handler subscribed n times under a
\* type is registered n times and invoked n times for every event of the
\* type (n subscriptions of the sale subscriber take the quantity n times).
C8_NoDedup ==
  /\ \A t \in EventTypes, h \in Subscribers :
       Count(GetOrEmpty(t), h) = Count(regHist.order[t], h)
  /\ (Dispatching /\ Top.pc = "while") =>
       /\ \A h \in Subscribers :
            Count(HandlersInvoked(Top.cur.seq), h)
              = Count(regHist.order[Top.cur.type], h)
       /\ Top.cur.machineId \in MachineIds =>
            stockLevel[Top.cur.machineId]
              = AfterMutators(Top, Len(regHist.order[Top.cur.type]))

\* a sale was dispatched to the sale subscriber subscribed twice, and the
\* stock went down by twice the quantity
C8_Witness ==
  /\ Dispatching
  /\ Top.pc = "while"
  /\ Top.cur.type = "sale"
  /\ Count(regHist.order["sale"], "saleSubscriber") = 2
  /\ Count(HandlersInvoked(Top.cur.seq), "saleSubscriber") = 2
  /\ stockLevel[Top.cur.machineId]
       = Top.stock0[Top.cur.machineId] - 2 * Top.cur.qty

\* Map.get(type) || [] on a registry m
Lookup(m, t) == IF t \in DOMAIN m THEN m[t] ELSE <<>>

\* C9: unsubscribe(type, handler) leaves under the type the previous list
\* without any occurrence of the handler, the rest in their order, and the
\* other types as they were; for a type never subscribed or a handler not
\* registered (a second unsubscribe included) every lookup gives what it
\* gave before.  A pair unsubscribed and not subscribed again is not
\* registered.
C9_UnsubscribeEffect ==
  /\ \A t \in EventTypes, h \in Subscribers :
       LET after == Unsubscribed(subscribers, t, h)
       IN /\ Lookup(after, t) = RemoveAll(GetOrEmpty(t), h)
          /\ \A u \in EventTypes \ {t} :
               /\ u \in DOMAIN after <=> Has(u)
               /\ Lookup(after, u) = GetOrEmpty(u)
          /\ (~Has(t) \/ h \notin Range(GetOrEmpty(t))) =>
               \A u \in EventTypes : Lookup(after, u) = GetOrEmpty(u)
  /\ \A p \in regHist.removed : p[2] \notin Range(GetOrEmpty(p[1]))
  /\ \A t \in EventTypes : GetOrEmpty(t) = regHist.order[t]

\* the sale subscriber was unsubscribed from "sale"; the warning subscriber
\* is still there, and the "refill" list is as it was
C9_Witness ==
  /\ <<"sale", "saleSubscriber">> \in regHist.removed
  /\ GetOrEmpty("sale") = <<"stockWarningSubscriber">>
  /\ GetOrEmpty("refill") = <<"refillSubscriber", "stockWarningSubscriber">>

\* C10: after unsubscribe("sale", saleSubscriber), a published sale event
\* for a machine in the sale subscriber's scope leaves every stock level as
\* it was when the event was dequeued, with other handlers still subscribed.
C10_SaleUnsubscribed ==
  ( /\ Dispatching
    /\ Top.cur.type = "sale"
    /\ <<"sale", "saleSubscriber">> \in regHist.removed )
  => stockLevel = Top.stock0

\* a sale for a machine in the sale subscriber's scope was dispatched, to
\* the warning subscriber only, after the sale subscriber was unsubscribed
C10_Witness ==
  /\ Dispatching
  /\ Top.pc = "while"
  /\ Top.cur.type = "sale"
  /\ <<"sale", "saleSubscriber">> \in regHist.removed
  /\ FindIndex(MachinesOf("saleSubscriber"), Top.cur.machineId) # 0
  /\ HandlersInvoked(Top.cur.seq) = <<"stockWarningSubscriber">>
  /\ stockLevel[Top.cur.machineId] # InitialStock

(* ------------ the program's subscribers with changing scopes ----------- *)
\* the handlers whose scope the environment changes, the machine it adds
\* and removes, and the events it publishes: for that machine, and for an
\* id no Machine object has
ScopeSubscribers == {"saleSubscriber", "refillSubscriber"}
ScopeMachines == {"001"}
ScopeEvents == {Event("sale", "001", 4), Event("refill", "001", 4)}
UnknownEvents == {Event("sale", "999", 4), Event("refill", "999", 4)}

\* getMachines() as a set of ids
Scope(h) ==
  IF h = "stockWarningSubscriber" THEN DOMAIN warnMachines
  ELSE Range(MachinesOf(h))

TopAddMachine(h, m) ==
  AtRest /\ Len(MachinesOf(h)) < MaxMachines /\ addMachine(h, m)
TopRemoveMachine(h, m) == AtRest /\ removeMachine(h, m)
TopWarningAddMachine(m) == AtRest /\ warningAddMachine(m)
TopWarningRemoveMachine(m) == AtRest /\ warningRemoveMachine(m)

NextScope ==
  \/ \E p \in RegPairs : TopSubscribeOnce(p[1], p[2])
  \/ \E p \in RegPairs : TopUnsubscribe(p[1], p[2])
  \/ \E e \in ScopeEvents : StockPublish(e)
  \/ \E e \in UnknownEvents : TopPublish(e)
  \/ \E h \in ScopeSubscribers, m \in ScopeMachines : TopAddMachine(h, m)
  \/ \E h \in ScopeSubscribers, m \in ScopeMachines : TopRemoveMachine(h, m)
  \/ \E m \in ScopeMachines : TopWarningAddMachine(m)
  \/ \E m \in ScopeMachines : TopWarningRemoveMachine(m)
  \/ Dequeue
  \/ DrainEnd
  \/ HandleBuiltin

SpecScope == Init /\ [][NextScope]_vars

(* ---------------------- claims: scopes and stock ------------------------ *)
\* type and machine of the pending events produced during the dispatch of
\* the event with enqueue number n
DerivedOf(n) ==
  LET d == SelectSeq(eventQueue, LAMBDA x : x.parent = n)
  IN [i \in DOMAIN d |-> <<d[i].type, d[i].machineId>>]

\* the step in which handle() of h runs for the event being dispatched
HandlerStep(h) ==
  /\ stack # <<>> /\ Top.pc = "for"
  /\ Top.handlers[Top.idx] = h
  /\ Len(log') = Len(log) + 1

\* C11: after handlerX.removeMachine(m) and until handlerX.addMachine(m), m
\* is not in handlerX's scope, and handlerX.handle for an event of machine m
\* changes no stock level and no flag and produces no event, although
\* handlerX is still subscribed and invoked.
C11_ScopeRemoval ==
  [][ /\ \A p \in scopeHist' : p[2] \notin Scope(p[1])'
      /\ \A h \in BuiltinSubscribers :
           (HandlerStep(h) /\ <<h, Top.cur.machineId>> \in scopeHist) =>
             /\ stockLevel' = stockLevel
             /\ warnMachines' = warnMachines
             /\ eventQueue' = eventQueue ]_vars

\* a sale for a machine removed from the sale subscriber's scope was
\* handled by the sale subscriber, still subscribed, and the stock is as
\* it was
C11_Witness ==
  /\ Dispatching
  /\ Top.pc = "while"
  /\ Top.cur.type = "sale"
  /\ <<"saleSubscriber", Top.cur.machineId>> \in scopeHist
  /\ "saleSubscriber" \in Range(GetOrEmpty("sale"))
  /\ "saleSubscriber" \in Range(HandlersInvoked(Top.cur.seq))
  /\ stockLevel = Top.stock0

\* the events the step has appended to the queue, as <<type, machine>>
Appended ==
  LET d == SubSeq(eventQueue', Len(eventQueue) + 1, Len(eventQueue'))
  IN [i \in DOMAIN d |-> <<d[i].type, d[i].machineId>>]

\* handle() of the warning subscriber runs for an event of a machine in its
\* scope
WarningStep ==
  /\ HandlerStep("stockWarningSubscriber")
  /\ Top.cur.machineId \in DOMAIN warnMachines

\* C13: StockWarningSubscriber.handle for an in-scope machine sets the
\* machine's flag from false to true if and only if the stock level it
\* reads is < 3 and the flag is false, and in exactly that case returns
\* exactly one LowStockWarningEvent for that machine.
C13_OkToWarned ==
  [][ WarningStep =>
        LET m == Top.cur.machineId
            fires == stockLevel[m] < 3 /\ ~warnMachines[m]
        IN /\ (~warnMachines[m] /\ warnMachines'[m]) <=> fires
           /\ fires => Appended = << <<"low_stock_warning", m>> >>
           /\ ~fires => \A i \in DOMAIN Appended :
                          Appended[i][1] # "low_stock_warning" ]_vars

\* the warning subscriber has just set the flag of a machine below 3 and
\* its low-stock warning is the last event in the queue
C13_Witness ==
  /\ Dispatching
  /\ log # <<>>
  /\ log[Len(log)].handler = "stockWarningSubscriber"
  /\ log[Len(log)].ev.seq = Top.cur.seq
  /\ Top.cur.machineId \in DOMAIN warnMachines
  /\ warnMachines[Top.cur.machineId]
  /\ stockLevel[Top.cur.machineId] < 3
  /\ eventQueue # <<>>
  /\ eventQueue[Len(eventQueue)].type = "low_stock_warning"
  /\ eventQueue[Len(eventQueue)].parent = Top.cur.seq

\* C14: StockWarningSubscriber.handle for an in-scope machine sets the
\* machine's flag from true to false if and only if the stock level it
\* reads is >= 3 and the flag is true, and in exactly that case returns
\* exactly one StockLevelOkEvent for that machine.
C14_WarnedToOk ==
  [][ WarningStep =>
        LET m == Top.cur.machineId
            clears == stockLevel[m] >= 3 /\ warnMachines[m]
        IN /\ (warnMachines[m] /\ ~warnMachines'[m]) <=> clears
           /\ clears => Appended = << <<"stock_level_ok", m>> >>
           /\ ~clears => \A i \in DOMAIN Appended :
                           Appended[i][1] # "stock_level_ok" ]_vars

\* the warning subscriber has just cleared the flag of a machine at or
\* above 3 and its stock-level-ok event is the last event in the queue
C14_Witness ==
  /\ Dispatching
  /\ log # <<>>
  /\ log[Len(log)].handler = "stockWarningSubscriber"
  /\ log[Len(log)].ev.seq = Top.cur.seq
  /\ Top.cur.machineId \in DOMAIN warnMachines
  /\ ~warnMachines[Top.cur.machineId]
  /\ stockLevel[Top.cur.machineId] >= 3
  /\ eventQueue # <<>>
  /\ eventQueue[Len(eventQueue)].type = "stock_level_ok"
  /\ eventQueue[Len(eventQueue)].parent = Top.cur.seq

\* C15 (as stated): a sale or refill that leaves the machine's level on
\* the same side of 3 as before it produces no low_stock_warning and no
\* stock_level_ok event, whatever subscribe/unsubscribe calls and
\* addMachine/removeMachine calls on the warning subscriber came before.
C15_SameSideSilent ==
  ( /\ Dispatching
    /\ Top.cur.type \in {"sale", "refill"}
    /\ Top.cur.machineId \in MachineIds
    /\ (Top.stock0[Top.cur.machineId] < 3) <=> (stockLevel[Top.cur.machineId] < 3) )
  => DerivedOf(Top.cur.seq) = <<>>

\* the machine is in no handler's scope
InNoScope(m) == \A h \in BuiltinSubscribers : m \notin Scope(h)

\* C16: handling an event whose machineId is in no handler's scope changes
\* no stock level and no flag and appends no event to the queue, and no
\* handler fails; when the event has been dispatched the levels are those
\* at its dequeue.
C16_UnknownMachineNoOp ==
  [][ /\ ( /\ stack # <<>> /\ Top.pc = "for"
           /\ InNoScope(Top.cur.machineId)
           /\ Len(log') = Len(log) + 1 )
         => /\ stockLevel' = stockLevel
            /\ warnMachines' = warnMachines
            /\ eventQueue' = eventQueue
            /\ ~raised'
      /\ (Dispatching' /\ InNoScope(Top.cur.machineId)')
         => (stockLevel' = Top.stock0' /\ DerivedOf(Top.cur.seq)' = <<>>) ]_vars

\* a sale for an id that no Machine has was dispatched to the sale and the
\* warning subscriber
C16_Witness ==
  /\ Dispatching
  /\ Top.pc = "while"
  /\ Top.cur.type = "sale"
  /\ InNoScope(Top.cur.machineId)
  /\ Len(HandlersInvoked(Top.cur.seq)) = 2
  /\ Range(HandlersInvoked(Top.cur.seq))
       = {"saleSubscriber", "stockWarningSubscriber"}

\* C20: MachineSaleSubscriber.handle for a sale of an in-scope machine
\* takes exactly the sold quantity from that machine's stock level, and
\* MachineRefillSubscriber.handle for a refill adds exactly the refill
\* quantity; the other levels stay, there is no floor (a negative level is
\* reached), and neither call appends an event to the queue.
C20_ExactStockChange ==
  [][ /\ ( /\ HandlerStep("saleSubscriber")
           /\ Top.cur.type = "sale"
           /\ Top.cur.machineId \in Scope("saleSubscriber") )
         => /\ stockLevel' = [stockLevel EXCEPT
                               ![Top.cur.machineId] = @ - Top.cur.qty]
            /\ eventQueue' = eventQueue
      /\ ( /\ HandlerStep("refillSubscriber")
           /\ Top.cur.type = "refill"
           /\ Top.cur.machineId \in Scope("refillSubscriber") )
         => /\ stockLevel' = [stockLevel EXCEPT
                               ![Top.cur.machineId] = @ + Top.cur.qty]
            /\ eventQueue' = eventQueue ]_vars

\* the sale subscriber has just taken a sale's quantity from a level below
\* that quantity, leaving a negative stock level
C20_Witness ==
  /\ Dispatching
  /\ Top.cur.type = "sale"
  /\ log # <<>>
  /\ log[Len(log)].handler = "saleSubscriber"
  /\ log[Len(log)].ev.seq = Top.cur.seq
  /\ Top.cur.machineId \in MachineIds
  /\ Top.stock0[Top.cur.machineId] >= 0
  /\ stockLevel[Top.cur.machineId] = Top.stock0[Top.cur.machineId] - Top.cur.qty
  /\ stockLevel[Top.cur.machineId] < 0

\* the warning subscriber is registered under both stock-changing types,
\* behind every entry of the type's mutator
Mutator(t) == IF t = "sale" THEN "saleSubscriber" ELSE "refillSubscriber"
WarningAfterMutators ==
  \A t \in {"sale", "refill"} :
    \E i \in DOMAIN GetOrEmpty(t) :
      /\ GetOrEmpty(t)[i] = "stockWarningSubscriber"
      /\ \A j \in DOMAIN GetOrEmpty(t) : GetOrEmpty(t)[j] = Mutator(t) => j < i

\* the machine's flag says what its level is
FlagMatchesLevel(m) == warnMachines[m] <=> (stockLevel[m] < 3)

\* C23 (as stated): at rest, with the warning subscriber registered behind
\* the mutators under every stock-changing type, every machine in its scope
\* that it has observed at least once has its flag true exactly when its
\* level is < 3.
C23_FlagTracksLevel ==
  (AtRest /\ WarningAfterMutators) =>
    \A m \in (DOMAIN warnMachines) \cap seen.ever : FlagMatchesLevel(m)

\* C23 (amended): the same for every machine the warning subscriber has
\* observed since the last subscribe or unsubscribe call and since the
\* machine was last added to its scope.
C23_FlagTracksLevelSince ==
  (AtRest /\ WarningAfterMutators) =>
    \A m \in (DOMAIN warnMachines) \cap seen.fresh : FlagMatchesLevel(m)

\* at rest under that wiring, a machine that was removed from a mutator's
\* scope and observed since is below 3 with its flag set
C23_Witness ==
  /\ AtRest
  /\ WarningAfterMutators
  /\ \E m \in (DOMAIN warnMachines) \cap seen.fresh :
       /\ warnMachines[m]
       /\ stockLevel[m] < 3
       /\ <<"refillSubscriber", m>> \in scopeHist

(* --------------------------- the demo wiring ---------------------------- *)
\* the program's subscribe calls, in its order
DemoWiring ==
  << <<"sale", "saleSubscriber">>, <<"refill", "refillSubscriber">>,
     <<"sale", "stockWarningSubscriber">>,
     <<"refill", "stockWarningSubscriber">>,
     <<"low_stock_warning", "stockLoggerSubscriber">>,
     <<"stock_level_ok", "stockLoggerSubscriber">> >>

\* the sales and refills of the program's first two tests, for any machine
DemoEvents ==
  {Event("sale", m, q) : m \in MachineIds, q \in {4, 1}}
    \cup {Event("refill", m, q) : m \in MachineIds, q \in {2, 5}}

\* how many of the subscribe calls have been made
WiredCount ==
  Len(GetOrEmpty("sale")) + Len(GetOrEmpty("refill"))
    + Len(GetOrEmpty("low_stock_warning")) + Len(GetOrEmpty("stock_level_ok"))

DemoSubscribe ==
  /\ AtRest
  /\ WiredCount < Len(DemoWiring)
  /\ subscribe(DemoWiring[WiredCount + 1][1], DemoWiring[WiredCount + 1][2])

DemoPublish(e) == WiredCount = Len(DemoWiring) /\ StockPublish(e)

NextDemo ==
  \/ DemoSubscribe
  \/ \E e \in DemoEvents : DemoPublish(e)
  \/ Dequeue
  \/ DrainEnd
  \/ HandleBuiltin

SpecDemo == Init /\ [][NextDemo]_vars

(* ----------------------- claims: the demo wiring ------------------------ *)
\* C12: under the demo wiring, once a published sale or refill for a
\* machine has been dispatched to all its handlers, the derived events are:
\* one low_stock_warning for the machine if the publish took its level from
\* >= 3 to < 3, one stock_level_ok if it took it from < 3 to >= 3, and none
\* otherwise.
C12_EdgeTrigger ==
  (Dispatching /\ Top.pc = "while" /\ Top.cur.type \in {"sale", "refill"}) =>
    LET m == Top.cur.machineId
        before == Top.stock0[m]
        after == stockLevel[m]
    IN DerivedOf(Top.cur.seq) =
         IF before >= 3 /\ after < 3 THEN << <<"low_stock_warning", m>> >>
         ELSE IF before < 3 /\ after >= 3 THEN << <<"stock_level_ok", m>> >>
         ELSE <<>>

\* the second sale of 4 took a machine from 6 to 2 and one low-stock
\* warning for it is pending
C12_Witness ==
  /\ Dispatching
  /\ Top.pc = "while"
  /\ Top.cur.type = "sale" /\ Top.cur.qty = 4
  /\ Top.stock0[Top.cur.machineId] = 6
  /\ stockLevel[Top.cur.machineId] = 2
  /\ DerivedOf(Top.cur.seq) = << <<"low_stock_warning", Top.cur.machineId>> >>

(* ------------- handlers that change the registry while running ---------- *)
\* subscribe() and unsubscribe() called from inside handle()
ReentrantSubscribe(t, h) ==
  MayCall /\ Len(GetOrEmpty(t)) < MaxSubs /\ subscribe(t, h)
ReentrantUnsubscribe(t, h) ==
  MayCall /\ h \in Range(GetOrEmpty(t)) /\ unsubscribe(t, h)

\* generic handlers that change the registry and return nothing
NextMutating ==
  \/ \E e \in RouterEvents : TopPublish(e)
  \/ \E t \in RouterSubTypes, h \in GenericSubscribers : TopSubscribeOnce(t, h)
  \/ \E t \in RouterSubTypes, h \in GenericSubscribers : TopUnsubscribe(t, h)
  \/ Dequeue
  \/ DrainEnd
  \/ HandleCall
  \/ \E t \in RouterSubTypes, h \in GenericSubscribers : ReentrantSubscribe(t, h)
  \/ \E t \in RouterSubTypes, h \in GenericSubscribers : ReentrantUnsubscribe(t, h)
  \/ Return(<<>>)

SpecMutating == Init /\ [][NextMutating]_vars

\* generic handlers that publish and return events and never throw
NextQuiet ==
  \/ \E e \in RouterEvents : TopPublish(e)
  \/ \E t \in RouterSubTypes, h \in GenericSubscribers : TopSubscribeOnce(t, h)
  \/ \E t \in RouterSubTypes, h \in GenericSubscribers : TopUnsubscribe(t, h)
  \/ Dequeue
  \/ DrainEnd
  \/ HandleCall
  \/ \E e \in RouterEvents : ReentrantPublish(e)
  \/ \E r \in RouterResults : Return(r)

SpecQuiet == Init /\ [][NextQuiet]_vars

(* ------------------- claims: dispatch of one event ---------------------- *)
\* C18 (as stated): the handlers invoked for a dequeued event are exactly
\* the entries its type had when it was dequeued, each once and in order,
\* whatever subscribe or unsubscribe calls handlers make for that type
\* during the dispatch.
C18_SnapshotAtDequeue ==
  Dispatching =>
    LET invoked == HandlersInvoked(Top.cur.seq)
    IN /\ Len(invoked) <= Len(Top.snap)
       /\ invoked = SubSeq(Top.snap, 1, Len(invoked))
       /\ Top.pc = "while" => invoked = Top.snap

\* the enqueue numbers of the pending events and of the dequeued ones
Pending == {eventQueue[i].seq : i \in DOMAIN eventQueue}
Dequeued == DOMAIN queuedAtStart

\* C19: when no handler fails, every event that enters the queue, by
\* publish() or by a handler's return value, is either pending once or has
\* been dequeued once, never both and never neither; its handlers are run
\* through in one pass that is not started again; and when the top-level
\* publish() returns every event of the drain has been dequeued.
C19_ExactlyOnce ==
  [][ /\ Pending' \cap Dequeued' = {}
      /\ Cardinality(Pending') = Len(eventQueue')
      /\ Pending' \cup Dequeued' = 1 .. (nextSeq' - 1)
      /\ Len(eventQueue') < Len(eventQueue) =>
           /\ Head(eventQueue).seq \notin Dequeued
           /\ Dequeued' = Dequeued \cup {Head(eventQueue).seq}
           /\ eventQueue' = Tail(eventQueue)
      /\ \A i \in DOMAIN log' :
           \/ /\ log'[i].idx = 1
              /\ log'[i].ev.seq \in Dequeued'
              /\ \A j \in 1 .. (i - 1) : log'[j].ev.seq # log'[i].ev.seq
           \/ /\ i > 1
              /\ log'[i - 1].ev.seq = log'[i].ev.seq
              /\ log'[i].idx = log'[i - 1].idx + 1
      /\ (Len(stack) = 1 /\ AtRest') =>
           (eventQueue = <<>> /\ Dequeued = 1 .. (nextSeq - 1)) ]_vars

\* a drain is about to end in which a published event, an event published
\* by a handler and an event returned by a handler were all dispatched
C19_Witness ==
  /\ Len(stack) = 1 /\ Top.pc = "while"
  /\ eventQueue = <<>>
  /\ nextSeq >= 4
  /\ Dequeued = 1 .. (nextSeq - 1)
  /\ \E i, j \in DOMAIN log :
       /\ log[i].ev.via = "publish" /\ log[i].ev.parent # 0
       /\ log[j].ev.via = "return"

(* ----------------- one Machine[] shared by the subscribers -------------- *)
\* the mutators subscribed to their types, scope calls of the list
\* subscribers for a machine that was not in the array at construction,
\* and sales and refills published for that machine
SharedPairs == {<<"sale", "saleSubscriber">>, <<"refill", "refillSubscriber">>}
SharedEvents ==
  {Event(t, m, 4) : t \in {"sale", "refill"}, m \in NewMachineIds}

NextShared ==
  \/ \E p \in SharedPairs : TopSubscribeOnce(p[1], p[2])
  \/ \E e \in SharedEvents : StockPublish(e)
  \/ \E h \in ListSubscribers, m \in NewMachineIds : TopAddMachine(h, m)
  \/ \E h \in ListSubscribers, m \in NewMachineIds : TopRemoveMachine(h, m)
  \/ Dequeue
  \/ DrainEnd
  \/ HandleBuiltin

SpecShared == Init /\ [][NextShared]_vars

\* C22 (as stated): an addMachine or removeMachine call on one list
\* subscriber leaves the set of machines in the caller's array and the set
\* of machines of every other subscriber as they were.
C22_ScopeFrame ==
  [][ (arrays' # arrays \/ machinesRef' # machinesRef) =>
        /\ Range(arrays'["caller"]) = Range(arrays["caller"])
        /\ \E h \in ListSubscribers :
             \A g \in ListSubscribers \ {h} : Scope(g)' = Scope(g) ]_vars

(* ------------ the demo wiring with a handler that adds events ----------- *)
\* the program's wiring and, behind it under "sale", a generic handler
\* that publishes or returns further sales and refills
BatchWiring == DemoWiring \o << <<"sale", "h1">> >>
BatchEvents == {Event("sale", "001", 4), Event("refill", "001", 4)}
BatchResults ==
  {<<>>, <<Event("sale", "001", 4), Event("refill", "001", 4)>>}

BatchSubscribe ==
  /\ AtRest
  /\ WiredCount < Len(BatchWiring)
  /\ subscribe(BatchWiring[WiredCount + 1][1], BatchWiring[WiredCount + 1][2])

BatchPublish(e) == WiredCount = Len(BatchWiring) /\ StockPublish(e)

NextBatch ==
  \/ BatchSubscribe
  \/ \E e \in BatchEvents : BatchPublish(e)
  \/ Dequeue
  \/ DrainEnd
  \/ HandleBuiltin
  \/ HandleCall
  \/ \E e \in BatchEvents : ReentrantPublish(e)
  \/ \E r \in BatchResults : Return(r)

SpecBatch == Init /\ [][NextBatch]_vars

\* C24 (as stated): while a low_stock_warning event is being dispatched the
\* machine's stock level is < 3, and while a stock_level_ok event is being
\* dispatched it is >= 3, also in drains with several sales and refills
\* queued at once.
C24_NotificationMatchesLevel ==
  (Dispatching /\ Top.cur.machineId \in MachineIds) =>
    /\ Top.cur.type = "low_stock_warning" => stockLevel[Top.cur.machineId] < 3
    /\ Top.cur.type = "stock_level_ok" => stockLevel[Top.cur.machineId] >= 3

(* ------------------- any wiring of the four subscribers ----------------- *)
\* subscriptions made any number of times, subscriptions made at most
\* once (the warning subscriber under the derived types among them), and
\* the events published: a sale, a refill and a low-stock warning
WiringManyPairs ==
  {<<"sale", "saleSubscriber">>, <<"sale", "stockWarningSubscriber">>}
WiringOncePairs ==
  {<<"refill", "refillSubscriber">>,
   <<"stock_level_ok", "stockWarningSubscriber">>,
   <<"low_stock_warning", "stockWarningSubscriber">>,
   <<"low_stock_warning", "stockLoggerSubscriber">>}
WiringEvents == RegEvents \cup {Event("low_stock_warning", "001", 0)}

NextWiring ==
  \/ \E p \in WiringManyPairs : TopSubscribe(p[1], p[2])
  \/ \E p \in WiringOncePairs : TopSubscribeOnce(p[1], p[2])
  \/ \E e \in WiringEvents : StockPublish(e)
  \/ Dequeue
  \/ DrainEnd
  \/ HandleBuiltin

\* publish() is sequential code: a drain that can take a step takes it
SpecWiring ==
  /\ Init /\ [][NextWiring]_vars
  /\ WF_vars(Dequeue) /\ WF_vars(HandleBuiltin) /\ WF_vars(DrainEnd)

\* the events enqueued in the current drain besides the published one
DerivedCount == nextSeq - 2

\* the event the top-level publish() was called with
Published ==
  {e \in Range(Timeline) \cup {Top.cur} : e.seq = 1}

\* C21 (as stated): a drain dispatches the published event plus at most one
\* derived event for the one warning subscriber.
C21_OneDerivedEvent ==
  stack # <<>> => DerivedCount <= 1

\* C21 (amended): every top-level publish() returns, and its drain
\* dispatches the published event plus at most one derived event for each
\* entry of the warning subscriber under the published event's type, and
\* one more.
C21_DrainTerminates ==
  /\ [](stack # <<>> =>
          \A e \in Published :
            DerivedCount
              <= Count(GetOrEmpty(e.type), "stockWarningSubscriber") + 1)
  /\ (outcome = "running") ~> (outcome = "returned")

\* a drain is about to end in which the warning subscriber, registered
\* under the low-stock type too, produced two events, the second while
\* handling the first
C21_Witness ==
  /\ Len(stack) = 1 /\ Top.pc = "while"
  /\ eventQueue = <<>>
  /\ DerivedCount = 2
  /\ Top.cur.type \in {"low_stock_warning", "stock_level_ok"}
  /\ Top.cur.parent = 2
  /\ "stockWarningSubscriber" \in Range(GetOrEmpty("low_stock_warning"))

====
